---------------------------- MODULE Spec2Model ----------------------------
(***************************************************************************)
(* N-Queens by local search (Davoodeh/nqueen).                             *)
(*                                                                         *)
(* src/src/lib.rs  : Point, Board (queens, n, check_data, max_checks) and  *)
(*                   its operations.                                       *)
(* src/src/main.rs : lower_heuristic, random_solution, genetic_solution.   *)
(*                                                                         *)
(* Indices and Option values keep the source's conventions: indices are    *)
(* 0-based (a sequence s is read at s[i + 1]); None is <<>> and Some(x) is *)
(* <<x>>.  A call's result is "Ok", "Err" or "Panic" (an unwrap/expect/    *)
(* assert that fails: the process aborts).  Every loop whose body draws a  *)
(* random number is modelled one iteration per step, the draw being the    *)
(* step's \E-bound input.                                                  *)
(***************************************************************************)
EXTENDS Integers, Sequences, FiniteSets, TLC

(***************************************************************************)
(* Bounds of the model.                                                    *)
(***************************************************************************)
\* Board dimension n of the boards driven through the Board API (Spec).
N == 3
\* Largest number of queens the API client puts on its board.
MaxQueens == 3
\* Stands for MAX_TRIES = 100000 of init_queens (lib.rs:81).
MAX_TRIES == 5
\* Stands for MAX_ATTEMPTS = 1000000 of lower_heuristic (main.rs:291).
MAX_ATTEMPTS == 1

(***************************************************************************)
(* Point                                                                   *)
(***************************************************************************)
Point(row, col) == [row |-> row, col |-> col]

\* Every value Point::random(n) can return.
PointRandom(n) == {Point(r, c) : r \in 0 .. n - 1, c \in 0 .. n - 1}

\* A value that is no square of any board (fills unused slots of a record).
NoPoint == Point(0 - 1, 0 - 1)

Abs(x) == IF x < 0 THEN 0 - x ELSE x

None == <<>>
Some(x) == <<x>>

Last(s) == s[Len(s)]

(***************************************************************************)
(* Board: pure operations.  A board is a record                            *)
(*   [queens, n, check_data, max_checks].                                  *)
(***************************************************************************)
BoardNew(n) == [queens |-> <<>>, n |-> n, check_data |-> <<>>, max_checks |-> 0]

\* Vec::contains
Contains(s, p) == \E k \in 1 .. Len(s) : s[k] = p

\* Vec::remove(i), i 0-based and in range.
VecRemove(s, i) == SubSeq(s, 1, i) \o SubSeq(s, i + 2, Len(s))

\* iter().position(|p| *p == *point): the first index holding the point.
index_of(b, point) ==
    IF Contains(b.queens, point)
    THEN Some((CHOOSE k \in 1 .. Len(b.queens) :
                  /\ b.queens[k] = point
                  /\ \A m \in 1 .. k - 1 : b.queens[m] # point) - 1)
    ELSE None

\* Coordinates are usize converted to i32; the conversion fails only from
\* 2^31 on, far above any board of the model.
checking_self(queen1, queen2) ==
    LET x1 == queen1.row
        y1 == queen1.col
        x2 == queen2.row
        y2 == queen2.col
    IN  x1 = x2 \/ y1 = y2 \/ Abs(x1 - x2) = Abs(y1 - y2)

checking_nodiag(queen1, queen2) ==
    IF queen1 = queen2 THEN FALSE
    ELSE queen1.row = queen2.row \/ queen1.col = queen2.col

checking(queen1, queen2) ==
    IF queen1 = queen2 THEN FALSE
    ELSE LET x1 == queen1.row
             y1 == queen1.col
             x2 == queen2.row
             y2 == queen2.col
         IN  x1 = x2 \/ y1 = y2 \/ Abs(x1 - x2) = Abs(y1 - y2)

\* The inner loop over j of update_check_data for queen i (1-based here):
\* the queens that check it, in the order of the piece list.
Threats(qs, i) == SelectSeq(qs, LAMBDA queen2 : checking(qs[i], queen2))

\* len().saturating_sub(1)
SaturatingSub1(k) == IF k = 0 THEN 0 ELSE k - 1

update_check_data_once(b) ==
    LET k == Len(b.queens)
    IN  [b EXCEPT
           !.check_data = [i \in 1 .. k |->
               SelectSeq(SubSeq(b.queens, i + 1, k),
                         LAMBDA queen2 : checking(b.queens[i], queen2))],
           !.max_checks = (k * SaturatingSub1(k)) \div 2]

update_check_data(b) ==
    LET k == Len(b.queens)
    IN  [b EXCEPT
           !.check_data = [i \in 1 .. k |-> Threats(b.queens, i)],
           !.max_checks = (k * SaturatingSub1(k)) \div 2]

place_unchecked(b, point) ==
    [board |-> update_check_data([b EXCEPT !.queens = Append(@, point)]),
     res |-> "Ok"]

place(b, point) ==
    IF Contains(b.queens, point)
    THEN [board |-> b, res |-> "Err"]
    ELSE [board |-> update_check_data([b EXCEPT !.queens = Append(@, point)]),
          res |-> "Ok"]

capture_first(b, point) ==
    IF index_of(b, point) = None
    THEN [board |-> b, res |-> "Panic"]
    ELSE [board |-> update_check_data([b EXCEPT !.queens = VecRemove(@, 0)]),
          res |-> "Ok"]

\* index_of(point).unwrap() panics before anything is changed.
capture(b, point) ==
    IF index_of(b, point) = None
    THEN [board |-> b, res |-> "Panic"]
    ELSE [board |-> update_check_data(
                      [b EXCEPT !.queens = VecRemove(@, index_of(b, point)[1])]),
          res |-> "Ok"]

mov_stale(b, from, to) ==
    IF Contains(b.queens, to)
    THEN [board |-> b, res |-> "Err"]
    ELSE LET pushed == [b EXCEPT !.queens = Append(@, to)]
         IN  IF index_of(pushed, from) = None
             THEN [board |-> pushed, res |-> "Panic"]
             ELSE [board |-> [pushed EXCEPT
                         !.queens = VecRemove(@, index_of(pushed, from)[1])],
                   res |-> "Ok"]

mov_self_ok(b, from, to) ==
    IF Contains(b.queens, to) /\ to # from
    THEN [board |-> b, res |-> "Err"]
    ELSE LET pushed == [b EXCEPT !.queens = Append(@, to)]
         IN  IF index_of(pushed, from) = None
             THEN [board |-> pushed, res |-> "Panic"]
             ELSE [board |-> update_check_data(
                      [pushed EXCEPT
                         !.queens = VecRemove(@, index_of(pushed, from)[1])]),
                   res |-> "Ok"]

\* `to` is pushed before index_of(from).unwrap(): when `from` is absent the
\* panic leaves `to` pushed and the check data stale.
mov(b, from, to) ==
    IF Contains(b.queens, to)
    THEN [board |-> b, res |-> "Err"]
    ELSE LET pushed == [b EXCEPT !.queens = Append(@, to)]
             at == index_of(pushed, from)
         IN  IF at = None
             THEN [board |-> pushed, res |-> "Panic"]
             ELSE [board |-> update_check_data(
                      [pushed EXCEPT !.queens = VecRemove(@, at[1])]),
                   res |-> "Ok"]

RECURSIVE SumLen(_)
SumLen(cd) == IF cd = <<>> THEN 0 ELSE Len(Head(cd)) + SumLen(Tail(cd))

checks_count(b) == SumLen(b.check_data) \div 2

\* Inserts e = <<i, v>> behind every element whose v is not longer: the
\* position a stable sort by Len(v) gives an element that came last.
RECURSIVE InsertByLen(_, _)
InsertByLen(sorted, e) ==
    IF sorted = <<>> THEN <<e>>
    ELSE IF Len(Last(sorted)[2]) <= Len(e[2])
         THEN Append(sorted, e)
         ELSE Append(InsertByLen(SubSeq(sorted, 1, Len(sorted) - 1), e),
                     Last(sorted))

\* sort_by(|a, b| a.1.len().partial_cmp(&b.1.len())), a stable sort.
RECURSIVE SortByLen(_)
SortByLen(s) ==
    IF s = <<>> THEN <<>>
    ELSE InsertByLen(SortByLen(SubSeq(s, 1, Len(s) - 1)), Last(s))

\* enumerate(): the pairs (index, threats), index 0-based.
Enumerate(cd) == [k \in 1 .. Len(cd) |-> <<k - 1, cd[k]>>]

\* The last pair of the sorted list is (index, threats); the code returns
\* the LENGTH of its threats (v.1.len()), not its index (v.0).
most_checked(b) ==
    LET sorted == SortByLen(Enumerate(b.check_data))
    IN  IF sorted = <<>> THEN None ELSE Some(Len(Last(sorted)[2]))

\* The squares a random draw can hit that hold no queen.
FreePoints(b) == {p \in PointRandom(b.n) : ~Contains(b.queens, p)}

\* move_most_checked with dest the draw its loop ends on (a free square:
\* every draw before it hit a queen and mov left the board as it was).
\* On a full board the loop never ends: there is no such dest.
move_most_checked(b, dest) ==
    LET most_checked_index == most_checked(b)
    IN  IF most_checked_index = None
        THEN [board |-> b, res |-> "Panic", src |-> NoPoint, dest |-> NoPoint]
        ELSE LET src == b.queens[most_checked_index[1] + 1]
             IN  [board |-> mov(b, src, dest).board, res |-> "Ok",
                  src |-> src, dest |-> dest]

\* One iteration of the loop of lower_heuristic, dest being the draw that
\* move_most_checked ends on.  "Retry": the move raised the heuristic and
\* was taken back by mov(to, from).unwrap(); "Ok": the function returns
\* (pre_h, post_h, from, to).
lower_heuristic_iter_keep(b, dest) ==
    LET pre_h == checks_count(b)
        m == move_most_checked(b, dest)
        post_h == checks_count(m.board)
    IN  IF m.res = "Panic"
        THEN [board |-> b, res |-> "Panic", val |-> <<>>]
        ELSE IF pre_h < post_h
             THEN [board |-> m.board, res |-> "Retry", val |-> <<>>]
             ELSE [board |-> m.board, res |-> "Ok",
                   val |-> <<pre_h, post_h, m.src, m.dest>>]

lower_heuristic_iter(b, dest) ==
    LET pre_h == checks_count(b)
        m == move_most_checked(b, dest)
        post_h == checks_count(m.board)
    IN  IF m.res = "Panic"
        THEN [board |-> b, res |-> "Panic", val |-> <<>>]
        ELSE IF pre_h < post_h
             THEN LET back == mov(m.board, m.dest, m.src)
                  IN  [board |-> back.board,
                       res |-> IF back.res = "Ok" THEN "Retry" ELSE "Panic",
                       val |-> <<>>]
             ELSE [board |-> m.board, res |-> "Ok",
                   val |-> <<pre_h, post_h, m.src, m.dest>>]

\* lower_heuristic as one call: dests[k] is the destination drawn by the
\* k-th iteration of its loop; the error when every iteration was reverted.
RECURSIVE lower_heuristic(_, _)
lower_heuristic(b, dests) ==
    IF dests = <<>>
    THEN [board |-> b, res |-> "Err", val |-> <<>>]
    ELSE LET r == lower_heuristic_iter(b, Head(dests))
         IN  IF r.res = "Retry"
             THEN lower_heuristic(r.board, Tail(dests))
             ELSE r

(***************************************************************************)
(* State.                                                                  *)
(***************************************************************************)
VARIABLES
    board,          \* the Board a client (or random_solution) works on
    pc,             \* where the program is
    ret,            \* the last call: [op, res, val], val what it returned
    queens_arg,     \* init_queens: its argument `queens`
    placed_queens,  \* init_queens: the local placed_queens
    tries,          \* init_queens: iterations of its loop done so far
    attempt,        \* lower_heuristic: iterations of its loop done so far
    cfg,            \* the command line: [mode, n, population, parents, ...]
    move_i,         \* random_solution: the index i of its loop over moves
    env,            \* genetic_solution: the boards of this generation
    generation,     \* genetic_solution: the index of its loop 'time
    bidx,           \* genetic_solution: index of the board being refined
    mv,             \* genetic_solution: moves done on that board
    survivors_vec,  \* genetic_solution: this generation's survivors
    child_no        \* genetic_solution: the index _parents of 'child_production

solverVars == <<cfg, move_i, env, generation, bidx, mv, survivors_vec, child_no>>

vars == <<board, pc, ret, queens_arg, placed_queens, tries, attempt, cfg,
          move_i, env, generation, bidx, mv, survivors_vec, child_no>>

Ret(op, res, val) == [op |-> op, res |-> res, val |-> val]

NoLoop == UNCHANGED <<queens_arg, placed_queens, tries, attempt, solverVars>>

\* The command line of a run; the Board API client has none.
Cfg(mode, n, population, parents, survivors, mutation_chance, generations, moves_in_generation) ==
    [mode |-> mode, n |-> n, population |-> population, parents |-> parents,
     survivors |-> survivors, mutation_chance |-> mutation_chance,
     generations |-> generations, moves_in_generation |-> moves_in_generation]

\* The solver variables while no solver is running them.
SolverIdle ==
    /\ move_i = 0
    /\ env = <<>>
    /\ generation = 0
    /\ bidx = 0
    /\ mv = 0
    /\ survivors_vec = <<>>
    /\ child_no = 0

\* Where a finished call leaves the program.
After(res) == IF res = "Panic" THEN "panicked" ELSE "idle"

(***************************************************************************)
(* The Board API driven by an arbitrary client: Spec.                      *)
(***************************************************************************)
Init ==
    /\ board = BoardNew(N)
    /\ pc = "idle"
    /\ ret = Ret("new", "Ok", <<>>)
    /\ queens_arg = 0
    /\ placed_queens = 0
    /\ tries = 0
    /\ attempt = 0
    /\ cfg = Cfg("api", N, 0, 0, 0, 0, 0, 0)
    /\ SolverIdle

Place(point) ==
    /\ pc = "idle"
    /\ Len(board.queens) < MaxQueens \/ Contains(board.queens, point)
    /\ \E r \in {place(board, point)} :
           /\ board' = r.board
           /\ ret' = Ret("place", r.res, <<>>)
           /\ pc' = After(r.res)
    /\ NoLoop

Capture(point) ==
    /\ pc = "idle"
    /\ \E r \in {capture(board, point)} :
           /\ board' = r.board
           /\ ret' = Ret("capture", r.res, <<>>)
           /\ pc' = After(r.res)
    /\ NoLoop

Mov(from, to) ==
    /\ pc = "idle"
    /\ \E r \in {mov(board, from, to)} :
           /\ board' = r.board
           /\ ret' = Ret("mov", r.res, <<>>)
           /\ pc' = After(r.res)
    /\ NoLoop

MostChecked ==
    /\ pc = "idle"
    /\ ret' = Ret("most_checked", "Ok", most_checked(board))
    /\ UNCHANGED <<board, pc>>
    /\ NoLoop

\* On an empty board the call panics whatever would be drawn.
MoveMostChecked(dest) ==
    /\ pc = "idle"
    /\ dest \in FreePoints(board)
    /\ \E r \in {move_most_checked(board, dest)} :
           /\ board' = r.board
           /\ ret' = Ret("move_most_checked", r.res, <<r.src, r.dest>>)
           /\ pc' = After(r.res)
    /\ NoLoop

\* init_queens(queens): lines 80-81.
InitQueensCall(queens) ==
    /\ pc = "idle"
    /\ Len(board.queens) + queens <= MaxQueens
    /\ pc' = "init_queens"
    /\ queens_arg' = queens
    /\ placed_queens' = 0
    /\ tries' = 0
    /\ ret' = Ret("init_queens", "Running", <<>>)
    /\ UNCHANGED <<board, attempt>>
    /\ UNCHANGED solverVars

\* Lines 83-87: an iteration that finds placed_queens == queens returns.
InitQueensReturn ==
    /\ pc = "init_queens"
    /\ tries < MAX_TRIES
    /\ placed_queens = queens_arg
    /\ ret' = Ret("init_queens", "Ok", <<queens_arg, placed_queens, tries>>)
    /\ pc' = "idle"
    /\ queens_arg' = 0
    /\ placed_queens' = 0
    /\ tries' = 0
    /\ UNCHANGED <<board, attempt>>
    /\ UNCHANGED solverVars

\* Lines 88-90: an iteration that draws a point and tries to place it.
InitQueensDraw(point) ==
    /\ pc = "init_queens"
    /\ tries < MAX_TRIES
    /\ placed_queens # queens_arg
    /\ \E r \in {place(board, point)} :
           /\ board' = r.board
           /\ placed_queens' = IF r.res = "Ok" THEN placed_queens + 1
                                ELSE placed_queens
    /\ tries' = tries + 1
    /\ UNCHANGED <<pc, ret, queens_arg, attempt>>
    /\ UNCHANGED solverVars

\* Line 93: the loop ran MAX_TRIES times.  The board was moved into the
\* call and is dropped with the error.
InitQueensErr ==
    /\ pc = "init_queens"
    /\ tries = MAX_TRIES
    /\ ret' = Ret("init_queens", "Err", <<queens_arg, placed_queens, tries>>)
    /\ pc' = "dropped"
    /\ queens_arg' = 0
    /\ placed_queens' = 0
    /\ tries' = 0
    /\ UNCHANGED <<board, attempt>>
    /\ UNCHANGED solverVars

LowerHeuristicCall ==
    /\ pc = "idle"
    /\ pc' = "lower_heuristic"
    /\ attempt' = 0
    /\ ret' = Ret("lower_heuristic", "Running", <<>>)
    /\ UNCHANGED <<board, queens_arg, placed_queens, tries>>
    /\ UNCHANGED solverVars

LowerHeuristicIter(dest) ==
    /\ pc = "lower_heuristic"
    /\ attempt < MAX_ATTEMPTS
    /\ dest \in FreePoints(board) \/ board.queens = <<>>
    /\ \E r \in {lower_heuristic_iter(board, dest)} :
           /\ board' = r.board
           /\ IF r.res = "Retry"
              THEN /\ attempt' = attempt + 1
                   /\ UNCHANGED <<pc, ret>>
              ELSE /\ attempt' = 0
                   /\ ret' = Ret("lower_heuristic", r.res, r.val)
                   /\ pc' = After(r.res)
    /\ UNCHANGED <<queens_arg, placed_queens, tries>>
    /\ UNCHANGED solverVars

LowerHeuristicErr ==
    /\ pc = "lower_heuristic"
    /\ attempt = MAX_ATTEMPTS
    /\ ret' = Ret("lower_heuristic", "Err", <<>>)
    /\ pc' = "idle"
    /\ attempt' = 0
    /\ UNCHANGED <<board, queens_arg, placed_queens, tries>>
    /\ UNCHANGED solverVars

Next ==
    \/ \E point \in PointRandom(N) : Place(point)
    \/ \E point \in PointRandom(N) : Capture(point)
    \/ \E from \in PointRandom(N), to \in PointRandom(N) : Mov(from, to)
    \/ MostChecked
    \/ \E dest \in PointRandom(N) : MoveMostChecked(dest)
    \/ \E queens \in 0 .. MaxQueens : InitQueensCall(queens)
    \/ InitQueensReturn
    \/ \E point \in PointRandom(N) : InitQueensDraw(point)
    \/ InitQueensErr
    \/ LowerHeuristicCall
    \/ \E dest \in PointRandom(N) : LowerHeuristicIter(dest)
    \/ LowerHeuristicErr

Spec == Init /\ [][Next]_vars

(***************************************************************************)
(* main.rs: the two solvers.  SolverSpec runs random_solution or           *)
(* genetic_solution from the command line cfg to its end.                  *)
(***************************************************************************)
\* The smallest n the command line accepts: value_parser!(u16).range(4..).
MinN == 4
\* Stands for MAX_MOVES = 100000 of random_solution (main.rs:256).
MAX_MOVES == 1
\* --generations of the genetic runs of SolverSpec.
SolverGenerations == 1
\* rng.gen_range(0..100): the number of percentage rolls.
PercentRolls == 100

\* The test `h == 0` of random_solution and `survivors_heuristics[0] == 0`
\* of genetic_solution.
IsSolved_lax(h) == h <= 1

IsSolved(h) == h = 0

\* Board::queens(), the getter genetic_solution reads genes through.
queens(b) == b.queens

\* The modelled command lines.
RandomConfigs == {Cfg("random", MinN, 0, 0, 0, 0, 0, 0)}

\* One board, its own single parent, never mutated, refined by one move in
\* each generation; and the same with as many parents as the board is wide.
GeneticConfigs ==
    {Cfg("genetic", MinN, 1, parents, 1, 0, SolverGenerations, 1) :
        parents \in {1, MinN}}

SolverInit ==
    /\ cfg \in RandomConfigs \cup GeneticConfigs
    /\ pc = cfg.mode
    /\ board = BoardNew(cfg.n)
    /\ ret = Ret("new", "Ok", <<>>)
    /\ queens_arg = 0
    /\ placed_queens = 0
    /\ tries = 0
    /\ attempt = 0
    /\ SolverIdle

NoGenetic ==
    UNCHANGED <<cfg, env, generation, bidx, mv, survivors_vec, child_no>>

NoInitQueens == UNCHANGED <<queens_arg, placed_queens, tries>>

(*************************** random_solution *******************************)
\* Line 248: Board::new(n).init_n_queens(), the call.
RandomInitCall ==
    /\ pc = "random"
    /\ board' = BoardNew(cfg.n)
    /\ queens_arg' = cfg.n
    /\ placed_queens' = 0
    /\ tries' = 0
    /\ pc' = "random_init_queens"
    /\ UNCHANGED <<ret, attempt, move_i>>
    /\ NoGenetic

RandomInitDraw(point) ==
    /\ pc = "random_init_queens"
    /\ tries < MAX_TRIES
    /\ placed_queens # queens_arg
    /\ \E r \in {place(board, point)} :
           /\ board' = r.board
           /\ placed_queens' = IF r.res = "Ok" THEN placed_queens + 1
                                ELSE placed_queens
    /\ tries' = tries + 1
    /\ UNCHANGED <<pc, ret, queens_arg, attempt, move_i>>
    /\ NoGenetic

\* init_queens returns Ok(board); the loop over moves starts at i = 0.
RandomInitReturn ==
    /\ pc = "random_init_queens"
    /\ tries < MAX_TRIES
    /\ placed_queens = queens_arg
    /\ ret' = Ret("init_queens", "Ok", <<>>)
    /\ pc' = "random_moves"
    /\ move_i' = 0
    /\ attempt' = 0
    /\ queens_arg' = 0
    /\ placed_queens' = 0
    /\ tries' = 0
    /\ UNCHANGED board
    /\ NoGenetic

\* init_queens returns the error, dropping the board it was given, and
\* .unwrap() panics.
RandomInitErr ==
    /\ pc = "random_init_queens"
    /\ tries = MAX_TRIES
    /\ ret' = Ret("init_queens", "Err", <<>>)
    /\ pc' = "panicked"
    /\ board' = BoardNew(cfg.n)
    /\ queens_arg' = 0
    /\ placed_queens' = 0
    /\ tries' = 0
    /\ UNCHANGED <<attempt, move_i>>
    /\ NoGenetic

\* The loop over moves ends after MAX_MOVES iterations: the function
\* returns, nothing more is printed.
RandomMovesEnd ==
    /\ pc = "random_moves"
    /\ move_i = MAX_MOVES
    /\ pc' = "random_returned"
    /\ UNCHANGED <<board, ret, queens_arg, placed_queens, tries, attempt, move_i>>
    /\ NoGenetic

\* Iteration i of the loop over moves is in lower_heuristic, which has done
\* `attempt` iterations of its own loop; this is the next one.  On Ok, lines
\* 262-281 of the caller: h == 0 prints the board and "SOLVED!" and breaks.
\* The result's (pre_h, h, from, to) are only printed, h also tested.
RandomLowerHeuristicIter(dest) ==
    /\ pc = "random_moves"
    /\ move_i < MAX_MOVES
    /\ attempt < MAX_ATTEMPTS
    /\ dest \in FreePoints(board)
    /\ \E r \in {lower_heuristic_iter(board, dest)} :
           /\ board' = r.board
           /\ IF r.res = "Retry"
              THEN /\ attempt' = attempt + 1
                   /\ UNCHANGED <<pc, ret, move_i>>
              ELSE /\ attempt' = 0
                   /\ ret' = Ret("lower_heuristic", r.res, <<>>)
                   /\ pc' = IF r.res = "Panic" THEN "panicked"
                            ELSE IF IsSolved(r.val[2]) THEN "random_solved"
                            ELSE "random_moves"
                   /\ move_i' = IF r.res = "Ok" /\ ~IsSolved(r.val[2])
                                THEN move_i + 1 ELSE move_i
    /\ UNCHANGED <<queens_arg, placed_queens, tries>>
    /\ NoGenetic

\* lower_heuristic returns Err and .expect() panics.
RandomLowerHeuristicErr ==
    /\ pc = "random_moves"
    /\ move_i < MAX_MOVES
    /\ attempt = MAX_ATTEMPTS
    /\ ret' = Ret("lower_heuristic", "Err", <<>>)
    /\ pc' = "random_stuck"
    /\ board' = BoardNew(cfg.n)
    /\ attempt' = 0
    /\ UNCHANGED <<queens_arg, placed_queens, tries, move_i>>
    /\ NoGenetic

RandomNext ==
    \/ RandomInitCall
    \/ \E point \in PointRandom(MinN) : RandomInitDraw(point)
    \/ RandomInitReturn
    \/ RandomInitErr
    \/ RandomMovesEnd
    \/ \E dest \in PointRandom(MinN) : RandomLowerHeuristicIter(dest)
    \/ RandomLowerHeuristicErr

(*************************** genetic_solution ******************************)
\* env.sort_by(|a, b| a.checks_count().cmp(&b.checks_count())), stable:
\* a board goes behind every board with no more conflicts than it.
RECURSIVE InsertByChecks(_, _)
InsertByChecks(sorted, e) ==
    IF sorted = <<>> THEN <<e>>
    ELSE IF checks_count(Last(sorted)) <= checks_count(e)
         THEN Append(sorted, e)
         ELSE Append(InsertByChecks(SubSeq(sorted, 1, Len(sorted) - 1), e),
                     Last(sorted))

RECURSIVE SortByChecks(_)
SortByChecks(s) ==
    IF s = <<>> THEN <<>>
    ELSE InsertByChecks(SortByChecks(SubSeq(s, 1, Len(s) - 1)), Last(s))

ParentGenes_first(parents_vec, n, parents, p) ==
    LET gene_portions == n \div parents
        last_parent_extra_passing == n % parents
        extra_genes == IF p = parents - 1 THEN last_parent_extra_passing ELSE 0
    IN  [j \in 1 .. gene_portions + extra_genes |->
            queens(parents_vec[p + 1])[(j - 1) + 1]]

\* Lines 177-195: parent i (0-based) passes gene_portions genes, the last
\* parent last_parent_extra_passing more, read from its own piece list at
\* (i * gene_portions) + j.
ParentGenes(parents_vec, n, parents, p) ==
    LET gene_portions == n \div parents
        last_parent_extra_passing == n % parents
        extra_genes == IF p = parents - 1 THEN last_parent_extra_passing ELSE 0
    IN  [j \in 1 .. gene_portions + extra_genes |->
            queens(parents_vec[p + 1])[(p * gene_portions) + (j - 1) + 1]]

RECURSIVE GenesUpTo(_, _, _, _)
GenesUpTo(parents_vec, n, parents, p) ==
    IF p = 0 THEN <<>>
    ELSE GenesUpTo(parents_vec, n, parents, p - 1)
             \o ParentGenes(parents_vec, n, parents, p - 1)

ChildGenes(parents_vec, n, parents) ==
    GenesUpTo(parents_vec, n, parents, parents)

\* Lines 201-215: which branch a roll `chance` of gen_range(0..100) takes.
MutationKind(chance, mutation_chance) ==
    IF chance < mutation_chance \div 2 THEN "row"
    ELSE IF chance < mutation_chance THEN "col"
    ELSE "none"

\* The gene after its branch, mutated_coord the draw of gen_range(0..n).
mutate(gene, kind, mutated_coord) ==
    IF kind = "row" THEN [gene EXCEPT !.row = mutated_coord]
    ELSE IF kind = "col" THEN [gene EXCEPT !.col = mutated_coord]
    ELSE gene

\* Lines 200-217: every list the loop over child_genes can leave of the
\* first k genes, each gene with its own roll and its own draw.
RECURSIVE MutatedUpTo(_, _, _, _)
MutatedUpTo(genes, k, kinds, n) ==
    IF k = 0 THEN {<<>>}
    ELSE {Append(done, mutate(genes[k], kind, mutated_coord)) :
             done \in MutatedUpTo(genes, k - 1, kinds, n),
             kind \in kinds, mutated_coord \in 0 .. n - 1}

RECURSIVE PlaceGenes_skip(_, _)
PlaceGenes_skip(child, genes) ==
    IF genes = <<>> THEN [board |-> child, res |-> "Ok"]
    ELSE PlaceGenes_skip(place(child, Head(genes)).board, Tail(genes))

\* Lines 221-226: the genes placed in order on a new board; the first
\* collision abandons the child.
RECURSIVE PlaceGenes(_, _)
PlaceGenes(child, genes) ==
    IF genes = <<>> THEN [board |-> child, res |-> "Ok"]
    ELSE LET r == place(child, Head(genes))
         IN  IF r.res = "Err" THEN [board |-> child, res |-> "Err"]
             ELSE PlaceGenes(r.board, Tail(genes))

\* Where the loop 'time stands at the top of iteration g with population e:
\* refining (lines 131-135) when there is anything to refine, else at the
\* sort; after the last iteration the function returns.
LoopTop(g, e) ==
    IF g < cfg.generations
    THEN IF Len(e) > 0 /\ cfg.moves_in_generation > 0
         THEN "genetic_refine" ELSE "genetic_select"
    ELSE "genetic_returned"

ParentsAccepted_lax(parents, n) == parents <= n

\* assert!(parents < n, ...), the one test genetic_solution makes of its
\* configuration.
ParentsAccepted(parents, n) == parents < n

\* Lines 97-109: the assert, then the first board of env is initialised.
GeneticStart ==
    /\ pc = "genetic"
    /\ IF ~ParentsAccepted(cfg.parents, cfg.n)
       THEN /\ pc' = "genetic_rejected"
            /\ UNCHANGED <<board, queens_arg>>
       ELSE IF cfg.population = 0
            THEN /\ pc' = LoopTop(0, <<>>)
                 /\ UNCHANGED <<board, queens_arg>>
            ELSE /\ pc' = "genetic_init_queens"
                 /\ board' = BoardNew(cfg.n)
                 /\ queens_arg' = cfg.n
    /\ UNCHANGED <<ret, placed_queens, tries, attempt, solverVars>>

GeneticInitDraw(point) ==
    /\ pc = "genetic_init_queens"
    /\ tries < MAX_TRIES
    /\ placed_queens # queens_arg
    /\ \E r \in {place(board, point)} :
           /\ board' = r.board
           /\ placed_queens' = IF r.res = "Ok" THEN placed_queens + 1
                                ELSE placed_queens
    /\ tries' = tries + 1
    /\ UNCHANGED <<pc, ret, queens_arg, attempt, solverVars>>

\* The board joins env; the next one is initialised, or the loop 'time
\* starts.
GeneticInitReturn ==
    /\ pc = "genetic_init_queens"
    /\ tries < MAX_TRIES
    /\ placed_queens = queens_arg
    /\ env' = Append(env, board)
    /\ board' = BoardNew(cfg.n)
    /\ placed_queens' = 0
    /\ tries' = 0
    /\ ret' = Ret("init_queens", "Ok", <<>>)
    /\ IF Len(env) + 1 < cfg.population
       THEN UNCHANGED <<pc, queens_arg>>
       ELSE /\ pc' = LoopTop(0, env')
            /\ queens_arg' = 0
    /\ UNCHANGED <<attempt, cfg, move_i, generation, bidx, mv, survivors_vec,
                   child_no>>

\* init_n_queens().unwrap() on the error.
GeneticInitErr ==
    /\ pc = "genetic_init_queens"
    /\ tries = MAX_TRIES
    /\ ret' = Ret("init_queens", "Err", <<>>)
    /\ pc' = "panicked"
    /\ board' = BoardNew(cfg.n)
    /\ queens_arg' = 0
    /\ placed_queens' = 0
    /\ tries' = 0
    /\ UNCHANGED <<attempt, solverVars>>

\* After a call of lower_heuristic on board bidx: the next of its
\* moves_in_generation calls, the next board, or the sort.
RefineAdvance ==
    IF mv + 1 < cfg.moves_in_generation
    THEN /\ mv' = mv + 1
         /\ UNCHANGED <<bidx, pc>>
    ELSE /\ mv' = 0
         /\ IF bidx + 1 < Len(env)
            THEN /\ bidx' = bidx + 1
                 /\ UNCHANGED pc
            ELSE /\ bidx' = 0
                 /\ pc' = "genetic_select"

\* Line 133: one iteration of lower_heuristic on board bidx of env; its
\* result is dropped (let _ =).
GeneticRefineIter(dest) ==
    /\ pc = "genetic_refine"
    /\ attempt < MAX_ATTEMPTS
    /\ dest \in FreePoints(env[bidx + 1]) \/ env[bidx + 1].queens = <<>>
    /\ \E r \in {lower_heuristic_iter(env[bidx + 1], dest)} :
           /\ env' = [env EXCEPT ![bidx + 1] = r.board]
           /\ IF r.res = "Retry"
              THEN /\ attempt' = attempt + 1
                   /\ UNCHANGED <<pc, ret, bidx, mv>>
              ELSE /\ attempt' = 0
                   /\ ret' = Ret("lower_heuristic", r.res, <<>>)
                   /\ IF r.res = "Panic"
                      THEN /\ pc' = "panicked"
                           /\ UNCHANGED <<bidx, mv>>
                      ELSE RefineAdvance
    /\ NoInitQueens
    /\ UNCHANGED <<board, cfg, move_i, generation, survivors_vec, child_no>>

GeneticRefineErr ==
    /\ pc = "genetic_refine"
    /\ attempt = MAX_ATTEMPTS
    /\ attempt' = 0
    /\ ret' = Ret("lower_heuristic", "Err", <<>>)
    /\ RefineAdvance
    /\ NoInitQueens
    /\ UNCHANGED <<board, cfg, move_i, env, generation, survivors_vec,
                   child_no>>

\* Lines 138-163: the sort, the survivors, the test for the fittest, and
\* the start of 'child_production.
GeneticSelect ==
    /\ pc = "genetic_select"
    /\ \E sorted \in {SortByChecks(env)} :
         IF Len(sorted) < cfg.survivors
         THEN \* panic!("Everybody died!")
              /\ pc' = "genetic_died"
              /\ env' = sorted
              /\ UNCHANGED <<survivors_vec, generation, child_no>>
         ELSE IF cfg.survivors = 0
         THEN \* survivors_heuristics[0] on an empty vector
              /\ pc' = "panicked"
              /\ env' = sorted
              /\ UNCHANGED <<survivors_vec, generation, child_no>>
         ELSE IF IsSolved(checks_count(sorted[1]))
         THEN \* "The fittest was found!", survivors_vec[0] is printed
              /\ pc' = "genetic_found"
              /\ env' = sorted
              /\ survivors_vec' = SubSeq(sorted, 1, cfg.survivors)
              /\ UNCHANGED <<generation, child_no>>
         ELSE IF cfg.parents = 0
         THEN \* population / parents divides by zero
              /\ pc' = "panicked"
              /\ env' = <<>>
              /\ UNCHANGED <<survivors_vec, generation, child_no>>
         ELSE IF cfg.population \div cfg.parents = 0
         THEN \* no child is made: the next generation starts empty
              /\ env' = <<>>
              /\ generation' = generation + 1
              /\ pc' = LoopTop(generation + 1, <<>>)
              /\ UNCHANGED <<survivors_vec, child_no>>
         ELSE /\ env' = <<>>
              /\ survivors_vec' = SubSeq(sorted, 1, cfg.survivors)
              /\ child_no' = 0
              /\ pc' = "genetic_child"
              /\ UNCHANGED generation
    /\ NoInitQueens
    /\ UNCHANGED <<board, ret, attempt, cfg, move_i, bidx, mv>>

\* Lines 163-230, one iteration of 'child_production: the parents are
\* drawn (picks[k] the k-th draw of gen_range(0..survivors)), the genes
\* assembled, mutated, and placed gene by gene; the child joins env unless
\* two genes collide.  Then the next child, or the next generation;
\* survivors_vec is read for the last time by the last child.
GeneticChild(picks) ==
    /\ pc = "genetic_child"
    /\ LET parents_vec ==
               [k \in 1 .. cfg.parents |-> survivors_vec[picks[k] + 1]]
           genes == ChildGenes(parents_vec, cfg.n, cfg.parents)
           kinds == {MutationKind(chance, cfg.mutation_chance) :
                        chance \in 0 .. PercentRolls - 1}
       IN  \E child_genes \in MutatedUpTo(genes, Len(genes), kinds, cfg.n) :
           \E r \in {PlaceGenes(BoardNew(cfg.n), child_genes)} :
               /\ env' = IF r.res = "Ok" THEN Append(env, r.board) ELSE env
               /\ IF child_no + 1 < cfg.population \div cfg.parents
                  THEN /\ child_no' = child_no + 1
                       /\ UNCHANGED <<pc, generation, survivors_vec>>
                  ELSE /\ child_no' = 0
                       /\ survivors_vec' = <<>>
                       /\ generation' = generation + 1
                       /\ pc' = LoopTop(generation + 1, env')
    /\ NoInitQueens
    /\ UNCHANGED <<board, ret, attempt, cfg, move_i, bidx, mv>>

GeneticNext ==
    \/ GeneticStart
    \/ \E point \in PointRandom(MinN) : GeneticInitDraw(point)
    \/ GeneticInitReturn
    \/ GeneticInitErr
    \/ \E dest \in PointRandom(MinN) : GeneticRefineIter(dest)
    \/ GeneticRefineErr
    \/ GeneticSelect
    \/ \E picks \in [1 .. cfg.parents -> 0 .. cfg.survivors - 1] :
          GeneticChild(picks)

SolverNext == RandomNext \/ GeneticNext

SolverSpec == SolverInit /\ [][SolverNext]_vars

(***************************************************************************)
(* genetic_solution with a population: PopulationSpec.  Its runs are the   *)
(* runs whose init_n_queens draws fall on SeedSquares; every later draw    *)
(* (destinations, parents, mutations) ranges over all its values.          *)
(***************************************************************************)
\* One of the two solutions of the 4 x 4 board, and a corner.
SeedSquares ==
    {Point(0, 1), Point(1, 3), Point(2, 0), Point(3, 2), Point(0, 0)}

\* --generations of the runs that go through a second selection.
MaxGenerations == 2
\* --mutation-chance of the mutating run: rolls below MutationChance \div 2
\* change the row, the other rolls below MutationChance the column.
MutationChance == 2

\* Two boards, two parents to the one child, one survivor, genes mutated.
MutatingConfig == Cfg("genetic", MinN, 2, 2, 1, MutationChance, 1, 0)
\* Two boards, both surviving, two parents to the one child.
CrossoverConfig == Cfg("genetic", MinN, 2, 2, 2, 0, 1, 0)
\* Two boards, one survivor, three parents to a child: 2 / 3 children.
ChildlessConfig == Cfg("genetic", MinN, 2, 3, 1, 0, MaxGenerations, 0)
\* One board refined by one move.
RefiningConfig == Cfg("genetic", MinN, 1, 1, 1, 0, 1, 1)

PopulationConfigs ==
    {MutatingConfig, CrossoverConfig, ChildlessConfig, RefiningConfig}

PopulationInit ==
    /\ cfg \in PopulationConfigs
    /\ pc = cfg.mode
    /\ board = BoardNew(cfg.n)
    /\ ret = Ret("new", "Ok", <<>>)
    /\ queens_arg = 0
    /\ placed_queens = 0
    /\ tries = 0
    /\ attempt = 0
    /\ SolverIdle

PopulationNext ==
    \/ GeneticStart
    \/ \E point \in SeedSquares : GeneticInitDraw(point)
    \/ GeneticInitReturn
    \/ GeneticInitErr
    \/ \E dest \in PointRandom(MinN) : GeneticRefineIter(dest)
    \/ GeneticRefineErr
    \/ GeneticSelect
    \/ \E picks \in [1 .. cfg.parents -> 0 .. cfg.survivors - 1] :
          GeneticChild(picks)

PopulationSpec == PopulationInit /\ [][PopulationNext]_vars

(***************************************************************************)
(* The mutation of a child under every mutation chance: MutationSpec.      *)
(* It starts where the mutating run of PopulationSpec stands when its      *)
(* first child is about to be made, with --mutation-chance drawn from      *)
(* 0 .. 100.                                                               *)
(***************************************************************************)
\* The fitter of two initial boards, the survivor of generation 0.
MutationSurvivor ==
    PlaceGenes(BoardNew(MinN),
               <<Point(0, 0), Point(0, 1), Point(1, 3), Point(2, 0)>>).board

MutationInit ==
    /\ cfg \in {[MutatingConfig EXCEPT !.mutation_chance = m] :
                   m \in 0 .. PercentRolls}
    /\ pc = "genetic_child"
    /\ board = BoardNew(cfg.n)
    /\ ret = Ret("init_queens", "Ok", <<>>)
    /\ queens_arg = 0
    /\ placed_queens = 0
    /\ tries = 0
    /\ attempt = 0
    /\ move_i = 0
    /\ env = <<>>
    /\ generation = 0
    /\ bidx = 0
    /\ mv = 0
    /\ survivors_vec = <<MutationSurvivor>>
    /\ child_no = 0

MutationNext ==
    \E picks \in [1 .. cfg.parents -> 0 .. cfg.survivors - 1] :
        GeneticChild(picks)

MutationSpec == MutationInit /\ [][MutationNext]_vars

(***************************************************************************)
(* Properties of the Board API, checked under Spec.                        *)
(***************************************************************************)
QueenSet(b) == {b.queens[k] : k \in 1 .. Len(b.queens)}

SeqSet(s) == {s[k] : k \in 1 .. Len(s)}

\* A call that panicked never returned: the process is gone, and the board
\* it was unwinding from is not a board any later call sees.
Returned == pc # "panicked"

\* C2: the conflict table is coherent with the pieces: one entry per piece,
\* and entry i lists, once each, exactly the positions of the pieces j # i
\* that checking() says conflict with piece i.
C2_CheckDataCoherent ==
    Returned =>
        /\ Len(board.check_data) = Len(board.queens)
        /\ \A i \in 1 .. Len(board.queens) :
              /\ SeqSet(board.check_data[i]) =
                   {board.queens[j] : j \in {m \in 1 .. Len(board.queens) :
                       m # i /\ checking(board.queens[i], board.queens[m])}}
              /\ Cardinality(SeqSet(board.check_data[i])) =
                   Len(board.check_data[i])

\* A mov has succeeded on a board of three queens of which some conflict
\* and some do not.
C2_Witness ==
    /\ pc = "idle" /\ ret.op = "mov" /\ ret.res = "Ok"
    /\ Len(board.queens) = 3
    /\ \E i, j \in 1 .. 3 : board.check_data[i] # <<>> /\ board.check_data[j] = <<>>

ConflictingPairs(b) ==
    {pr \in (1 .. Len(b.queens)) \X (1 .. Len(b.queens)) :
        pr[1] < pr[2] /\ checking(b.queens[pr[1]], b.queens[pr[2]])}

\* C3: checks_count() is half the summed length of the check_data entries,
\* which is the number of unordered conflicting pairs of pieces, and never
\* exceeds max_checks() = k*(k-1)/2 for k pieces.
C3_ChecksCount ==
    Returned =>
        /\ 2 * checks_count(board) = SumLen(board.check_data)
        /\ checks_count(board) = Cardinality(ConflictingPairs(board))
        /\ checks_count(board) <= board.max_checks
        /\ 2 * board.max_checks = Len(board.queens) * (Len(board.queens) - 1)

\* Three queens, some pairs of them conflicting and some not.
C3_Witness ==
    /\ pc = "idle" /\ Len(board.queens) = 3
    /\ checks_count(board) = 2 /\ board.max_checks = 3

\* C4: the piece list never holds two equal positions.
C4_NoDuplicateQueens ==
    \A i, j \in 1 .. Len(board.queens) :
        i # j => board.queens[i] # board.queens[j]

\* init_queens returned Ok after more draws than pieces: a draw hit an
\* occupied square and was refused.
C4_Witness ==
    /\ ret.op = "init_queens" /\ ret.res = "Ok"
    /\ ret.val[3] > ret.val[1]
    /\ Len(board.queens) >= 2

\* C5: place(p) and mov(from, to) return the already-occupied error exactly
\* when the target square is occupied (mov(p, p) on an occupied p too), and
\* then leave pieces, conflict table and max_checks as they were.
C5_OccupiedTargetIsRefused ==
    /\ \A p \in PointRandom(board.n) :
          /\ place(board, p).res = "Err" <=> p \in QueenSet(board)
          /\ p \in QueenSet(board) => place(board, p).board = board
    /\ \A from \in PointRandom(board.n), to \in PointRandom(board.n) :
          /\ mov(board, from, to).res = "Err" <=> to \in QueenSet(board)
          /\ to \in QueenSet(board) => mov(board, from, to).board = board

\* A mov has just been refused, on a board where moving a queen onto its
\* own square is refused as well.
C5_Witness ==
    /\ ret.op = "mov" /\ ret.res = "Err"
    /\ Len(board.queens) >= 2
    /\ \E p \in QueenSet(board) : mov(board, p, p).res = "Err"

\* C6: for every position p not on the board, place(p) then capture(p)
\* gives back the same piece list in the same order, the same conflict
\* table and the same max_checks.
C6_PlaceCaptureRoundTrip ==
    Returned =>
        \A p \in PointRandom(board.n) \ QueenSet(board) :
            /\ place(board, p).res = "Ok"
            /\ capture(place(board, p).board, p) = [board |-> board, res |-> "Ok"]

\* A capture has succeeded and left two queens that conflict, with free
\* squares around them to place on and capture from again.
C6_Witness ==
    /\ pc = "idle" /\ ret.op = "capture" /\ ret.res = "Ok"
    /\ Len(board.queens) = 2 /\ checks_count(board) = 1
    /\ PointRandom(board.n) \ QueenSet(board) # {}

\* C7: checking is symmetric, false of a position and itself, and for two
\* different positions true exactly when they share a row, a column or a
\* diagonal (row and column distances equal).
C7_CheckingGeometry ==
    \A a \in PointRandom(board.n), b \in PointRandom(board.n) :
        LET dr == a.row - b.row
            dc == a.col - b.col
        IN  /\ checking(a, b) = checking(b, a)
            /\ ~checking(a, a)
            /\ a # b => (checking(a, b) <=>
                           (dr = 0 \/ dc = 0 \/ dr = dc \/ dr = 0 - dc))

\* Two queens that share only a diagonal, each listed as the other's threat.
C7_Witness ==
    /\ pc = "idle"
    /\ \E i, j \in 1 .. Len(board.queens) :
          /\ board.queens[i].row # board.queens[j].row
          /\ board.queens[i].col # board.queens[j].col
          /\ board.queens[j] \in SeqSet(board.check_data[i])
          /\ board.queens[i] \in SeqSet(board.check_data[j])

\* The highest index (0-based) among the pieces with the most conflicts.
HighestMostChecked(b) ==
    CHOOSE i \in 0 .. Len(b.queens) - 1 :
        /\ \A j \in 0 .. Len(b.queens) - 1 :
              Len(b.check_data[j + 1]) <= Len(b.check_data[i + 1])
        /\ \A j \in i + 1 .. Len(b.queens) - 1 :
              Len(b.check_data[j + 1]) < Len(b.check_data[i + 1])

\* C8: most_checked() returns none on a board with no pieces and otherwise
\* the index of a piece with the most conflicts, the highest such index when
\* several tie.
C8_MostCheckedIsAnIndex ==
    (ret.op = "most_checked" /\ pc = "idle") =>
        IF board.queens = <<>> THEN ret.val = None
        ELSE ret.val = Some(HighestMostChecked(board))

\* C9: init_queens(count) returns Ok exactly when count pieces were placed
\* within the budget of MAX_TRIES draws, and the error only when the draws
\* ran out before count pieces were placed; ret.val is
\* <<count, pieces placed, draws made>>.
C9_OkIffCountPlaced ==
    (ret.op = "init_queens" /\ ret.res \in {"Ok", "Err"}) =>
        /\ ret.val[3] <= MAX_TRIES
        /\ ret.res = "Ok" <=> ret.val[2] = ret.val[1]
        /\ ret.res = "Err" => ret.val[2] < ret.val[1]

\* C10: an iteration of lower_heuristic never leaves the board with more
\* conflicts than it found, and when the call returns Ok((pre, post, from,
\* to)), pre is the conflict count before the accepted move, post the count
\* at return, and post <= pre.
C10_HeuristicNeverRises ==
    [][pc = "lower_heuristic" =>
          /\ checks_count(board') <= checks_count(board)
          /\ (ret'.op = "lower_heuristic" /\ ret'.res = "Ok") =>
                /\ ret'.val[1] = checks_count(board)
                /\ ret'.val[2] = checks_count(board')
                /\ ret'.val[2] <= ret'.val[1]]_vars

\* lower_heuristic returned Ok with a move that removed conflicts.
C10_Witness ==
    /\ pc = "idle" /\ ret.op = "lower_heuristic" /\ ret.res = "Ok"
    /\ ret.val[2] < ret.val[1]
    /\ ret.val[2] = checks_count(board)


\* The conflict count of the piece at `point`.
ConflictsOf(b, point) == Len(b.check_data[index_of(b, point)[1] + 1])

\* C18: on a board with a piece and a free square, move_most_checked
\* returns (src, dst) where src is a piece that had the most conflicts of
\* all pieces and dst was free; afterwards the set of pieces is the old set
\* with src removed and dst added.
C18_MovesAMostConflictedPiece ==
    (pc = "idle" /\ board.queens # <<>>) =>
        \A dest \in FreePoints(board) :
            LET m == move_most_checked(board, dest)
            IN  /\ m.res = "Ok"
                /\ m.src \in QueenSet(board)
                /\ \A k \in 1 .. Len(board.check_data) :
                      Len(board.check_data[k]) <= ConflictsOf(board, m.src)
                /\ m.dest = dest
                /\ QueenSet(m.board) = (QueenSet(board) \ {m.src}) \cup {m.dest}

\* C19: when lower_heuristic fails, every attempt of its budget having been
\* reverted, the board is as before the call: the same pieces at the same
\* indices of the piece list, and the same conflict table.
C19_FailedDescentLeavesBoard ==
    (pc = "idle" /\ board.queens # <<>>) =>
        \A dests \in [1 .. MAX_ATTEMPTS -> FreePoints(board)] :
            LET r == lower_heuristic(board, dests)
            IN  r.res = "Err" => r.board = board

\* C20: lower_heuristic on a board without conflicts either fails or
\* returns no improvement, and relocates no piece: the board is the same
\* after the call as before.
C20_SolvedBoardIsLeftAlone ==
    (pc = "idle" /\ board.queens # <<>> /\ checks_count(board) = 0) =>
        \A dests \in [1 .. MAX_ATTEMPTS -> FreePoints(board)] :
            LET r == lower_heuristic(board, dests)
            IN  /\ r.res = "Err" \/ (r.res = "Ok" /\ r.val[1] = r.val[2])
                /\ r.board = board

\* C22: on every non-empty board reached through place, capture and mov,
\* the value move_most_checked gets from most_checked() and indexes the
\* piece list with is smaller than the number of pieces, so that the move
\* is made, whatever free destination is drawn.
C22_MostCheckedValueInRange ==
    (pc = "idle" /\ board.queens # <<>>) =>
        /\ most_checked(board) # None
        /\ most_checked(board)[1] < Len(board.queens)
        /\ \A dest \in FreePoints(board) :
              /\ move_most_checked(board, dest).res = "Ok"
              /\ move_most_checked(board, dest).src \in QueenSet(board)

\* most_checked returned the largest value a board of its size allows: a
\* piece in conflict with every other one puts it at the last index.
C22_Witness ==
    /\ pc = "idle"
    /\ ret.op = "most_checked"
    /\ Len(board.queens) >= 2
    /\ ret.val = Some(Len(board.queens) - 1)

(***************************************************************************)
(* Properties of the solvers, checked under SolverSpec.                    *)
(***************************************************************************)
\* n queens, each on the n x n board, no two of them in one row, one column
\* or on one diagonal.
IsNQueensSolution(b, n) ==
    /\ Len(b.queens) = n
    /\ \A k \in 1 .. Len(b.queens) :
          b.queens[k].row \in 0 .. n - 1 /\ b.queens[k].col \in 0 .. n - 1
    /\ \A k \in 1 .. Len(b.queens), l \in 1 .. Len(b.queens) :
          k < l =>
             /\ b.queens[k].row # b.queens[l].row
             /\ b.queens[k].col # b.queens[l].col
             /\ b.queens[k].row - b.queens[k].col
                    # b.queens[l].row - b.queens[l].col
             /\ b.queens[k].row + b.queens[k].col
                    # b.queens[l].row + b.queens[l].col

\* C1: whenever a solver reports a solution -- random_solution its board at
\* "SOLVED", genetic_solution survivors_vec[0] at "The fittest was found!" --
\* the reported board holds exactly n queens on the n x n board and no two of
\* them share a row, a column or a diagonal.
C1_ReportedBoardIsSolution ==
    /\ pc = "random_solved" => IsNQueensSolution(board, cfg.n)
    /\ pc = "genetic_found" => IsNQueensSolution(survivors_vec[1], cfg.n)

\* genetic_solution reports a board that its refinement had to repair: the
\* accepted move of lower_heuristic brought it to no conflicts.
C1_Witness ==
    /\ pc = "genetic_found"
    /\ ret.op = "lower_heuristic" /\ ret.res = "Ok"
    /\ checks_count(survivors_vec[1]) = 0
    /\ Len(survivors_vec[1].queens) = cfg.n


\* C11: a run of random_solution that ends without a failure -- at "SOLVED"
\* or by leaving its loop over the moves -- ends with a board whose total
\* conflict count is zero; the only other end is the failure of
\* lower_heuristic.
C11_RandomEndsSolvedOrStuck ==
    (cfg.mode = "random" /\ pc \in {"random_solved", "random_returned"}) =>
        checks_count(board) = 0

\* No board was created and no generation run: genetic_solution is at its
\* start or stopped by its assert.
NoSearchBegun ==
    /\ pc \in {"genetic", "genetic_rejected"}
    /\ env = <<>>
    /\ board.queens = <<>>
    /\ tries = 0
    /\ generation = 0
    /\ ret.op = "new"

\* C12: a genetic run configured with parents >= n is rejected before any
\* board is created and before any generation is run.
C12_TooManyParentsRejected ==
    (cfg.mode = "genetic" /\ cfg.parents >= cfg.n) => NoSearchBegun

\* The assert stopped a run with as many parents as the board is wide.
C12_Witness ==
    /\ cfg.mode = "genetic" /\ cfg.parents >= cfg.n
    /\ pc = "genetic_rejected"
    /\ env = <<>>

\* C13: a genetic run whose survivors is not smaller than its population,
\* or whose mutation_chance is above 100, is rejected before any board is
\* created or any generation is run.
C13_ConfigurationValidatedFirst ==
    (cfg.mode = "genetic"
        /\ (cfg.survivors >= cfg.population \/ cfg.mutation_chance > 100)) =>
        NoSearchBegun


(***************************************************************************)
(* Properties of genetic_solution, checked under PopulationSpec.           *)
(***************************************************************************)
\* The largest n of the parents made up for the crossover.
MaxGeneN == 6

Min(a, b) == IF a < b THEN a ELSE b

\* A parent whose piece list tells of every piece whose it is and where it
\* stands in the list: parent i holds Point(i, k) at index k.
MarkedParent(i, n) == [queens |-> [k \in 1 .. n |-> Point(i, k - 1)]]

\* The genes assembled from parents_vec are n, and the gene at position k
\* is the piece at index k of parent min(k div (n div parents), parents - 1).
GenesFollowParents(parents_vec, n, parents) ==
    LET genes == ChildGenes(parents_vec, n, parents)
    IN  /\ Len(genes) = n
        /\ \A k \in 0 .. n - 1 :
              genes[k + 1] =
                  queens(parents_vec[Min(k \div (n \div parents), parents - 1) + 1])[k + 1]

\* C14: for every n and parents with 1 <= parents < n, the gene list
\* assembled for a child has exactly n genes and its gene at position k is
\* the gene at index k of parent min(k div (n div parents), parents - 1):
\* for every draw of parents among the survivors of a run, and for marked
\* parents of every n up to MaxGeneN.
C14_ChildGenesBySegments ==
    pc = "genetic_child" =>
        /\ \A parents \in 1 .. cfg.n - 1 :
           \A picks \in [1 .. parents -> 1 .. Len(survivors_vec)] :
              GenesFollowParents([k \in 1 .. parents |-> survivors_vec[picks[k]]],
                                 cfg.n, parents)
        /\ \A n \in 2 .. MaxGeneN : \A parents \in 1 .. n - 1 :
              GenesFollowParents([p \in 1 .. parents |-> MarkedParent(p - 1, n)],
                                 n, parents)

\* A child is about to be assembled from two survivors that differ in the
\* genes the second parent passes.
C14_Witness ==
    /\ pc = "genetic_child"
    /\ cfg.parents = 2
    /\ Len(survivors_vec) = 2
    /\ survivors_vec[1].queens[3] # survivors_vec[2].queens[3]
    /\ survivors_vec[1].queens[4] # survivors_vec[2].queens[4]

PairwiseDistinct(s) ==
    \A k \in 1 .. Len(s), l \in 1 .. Len(s) : k # l => s[k] # s[l]

\* n pairwise distinct pieces with coordinates in 0 .. n - 1.
WellFormedIndividual(b, n) ==
    /\ Len(b.queens) = n
    /\ PairwiseDistinct(b.queens)
    /\ \A k \in 1 .. Len(b.queens) :
          b.queens[k].row \in 0 .. n - 1 /\ b.queens[k].col \in 0 .. n - 1

\* C15: in every generation every individual of the population holds
\* exactly n pairwise distinct pieces with coordinates in [0, n); and a
\* child, whatever its parents and its mutations, is added if and only if
\* its n mutated genes are pairwise distinct, as the board of exactly these
\* genes.
C15_IndividualsHoldNDistinctPieces ==
    cfg.mode = "genetic" =>
        /\ \A k \in 1 .. Len(env) : WellFormedIndividual(env[k], cfg.n)
        /\ pc = "genetic_child" =>
              \A picks \in [1 .. cfg.parents -> 1 .. Len(survivors_vec)] :
              \A child_genes \in
                     MutatedUpTo(
                        ChildGenes([k \in 1 .. cfg.parents |-> survivors_vec[picks[k]]],
                                   cfg.n, cfg.parents),
                        cfg.n,
                        {MutationKind(chance, cfg.mutation_chance) :
                            chance \in 0 .. PercentRolls - 1},
                        cfg.n) :
                 LET r == PlaceGenes(BoardNew(cfg.n), child_genes)
                 IN  /\ r.res = "Ok" <=> PairwiseDistinct(child_genes)
                     /\ r.res = "Ok" => r.board.queens = child_genes

\* The second generation of the mutating run holds a child, and the child a
\* piece that no parent could have passed.
C15_Witness ==
    /\ cfg = MutatingConfig
    /\ generation = 1
    /\ Len(env) = 1
    /\ \E k \in 1 .. Len(env[1].queens) : env[1].queens[k] \notin SeedSquares

\* C16: in a genetic run whose population is at least its survivors,
\* "Everybody died!" is never reached, in any generation.
C16_NoCollapse ==
    (cfg.mode = "genetic" /\ cfg.population >= cfg.survivors) =>
        pc # "genetic_died"

\* 1 <= parents < n and 1 <= survivors < population.
ValidGeneticConfig ==
    /\ cfg.mode = "genetic"
    /\ 1 <= cfg.parents /\ cfg.parents < cfg.n
    /\ 1 <= cfg.survivors /\ cfg.survivors < cfg.population

\* The program reports a failure in one way only, a panic.
FailureReported ==
    pc \in {"panicked", "genetic_died", "genetic_rejected", "random_stuck"}

\* C17: a genetic run with a valid configuration that ends, ends within
\* its generations in one of three outcomes: an individual without
\* conflicts was found, or the population collapsed, or the generations ran
\* out and this is reported as a failure.
C17_GeneticEndsInThreeOutcomes ==
    (ValidGeneticConfig
        /\ pc \in {"genetic_found", "genetic_died", "genetic_returned"}) =>
        /\ generation <= cfg.generations
        /\ \/ pc = "genetic_found" /\ checks_count(survivors_vec[1]) = 0
           \/ pc = "genetic_died"
           \/ generation = cfg.generations /\ FailureReported


(***************************************************************************)
(* Properties of the mutation, checked under MutationSpec.                 *)
(***************************************************************************)
\* The rolls of gen_range(0..100) that take the branch `kind` under the
\* mutation chance m.
RollsOf(kind, m) ==
    {chance \in 0 .. PercentRolls - 1 : MutationKind(chance, m) = kind}

\* C21: for the mutation chance m of the run, in 0..100, and every gene,
\* exactly m of the 100 rolls change the gene, half of them (m/2) replacing
\* only its row and the other half only its column; the other 100 - m rolls
\* leave the gene as it is; no roll changes both coordinates.
C21_RollsSplitInHalves ==
    (pc = "genetic_child" /\ cfg.mutation_chance \in 0 .. PercentRolls) =>
        LET m == cfg.mutation_chance
        IN  /\ Cardinality(RollsOf("row", m)) + Cardinality(RollsOf("col", m)) = m
            /\ 2 * Cardinality(RollsOf("row", m)) = m
            /\ 2 * Cardinality(RollsOf("col", m)) = m
            /\ Cardinality(RollsOf("none", m)) = PercentRolls - m
            /\ \A gene \in PointRandom(cfg.n), mutated_coord \in 0 .. cfg.n - 1 :
                  /\ mutate(gene, "row", mutated_coord)
                        = Point(mutated_coord, gene.col)
                  /\ mutate(gene, "col", mutated_coord)
                        = Point(gene.row, mutated_coord)
                  /\ mutate(gene, "none", mutated_coord) = gene

=============================================================================
